---- MODULE Spec2Model ----
(***************************************************************************)
(* A model of retriv_bridge.py: the line-delimited JSON command loop, the  *)
(* session globals (retriever, indexed, indexed_docs, indexed_files), the  *)
(* configure / index / search handlers and the result mapper.              *)
(*                                                                         *)
(* Strings the code inspects (document texts, identifiers) are sequences   *)
(* of one-character strings, so that strip(), startswith(), int() and the  *)
(* f"doc_{n}" formatting are computed, not assumed.  JSON values whose     *)
(* type the code tests are records tagged with t.  Wall-clock fields       *)
(* (time_taken) and the log stream on stderr are not modelled.  Writes to  *)
(* stdout/stderr are taken to succeed.                                     *)
(***************************************************************************)
EXTENDS Integers, Sequences, FiniteSets, TLC

(***************************************************************************)
(* Bounds of the model.                                                    *)
(***************************************************************************)
\* longest list of inline documents in an index command
MaxDocs == 2
\* longest list of directories in an index command
MaxDirs == 2
\* longest list of raw results the backend returns to a search
MaxResults == 2

(***************************************************************************)
(* Strings.                                                                *)
(***************************************************************************)
Whitespace == {" "}

DigitChars == <<"0", "1", "2", "3", "4", "5", "6", "7", "8", "9">>

IsDigitChar(c) == \E k \in 1..Len(DigitChars) : DigitChars[k] = c

DigitValue(c) == (CHOOSE k \in 1..Len(DigitChars) : DigitChars[k] = c) - 1

\* str(n) for a natural number n, as f"doc_{n}" formats it
RECURSIVE FormatNat(_)
FormatNat(n) ==
  IF n < 10 THEN <<DigitChars[n + 1]>>
  ELSE FormatNat(n \div 10) \o <<DigitChars[(n % 10) + 1]>>

\* str.isdigit(): non-empty and every character a digit
IsDigit(s) == Len(s) > 0 /\ \A k \in 1..Len(s) : IsDigitChar(s[k])

RECURSIVE DigitsValue(_)
DigitsValue(s) ==
  IF Len(s) = 0 THEN 0
  ELSE 10 * DigitsValue(SubSeq(s, 1, Len(s) - 1)) + DigitValue(s[Len(s)])

\* int(s) for a string s: an optional sign followed by digits; anything
\* else raises ValueError (ok = FALSE)
ParseInt(s) ==
  IF IsDigit(s) THEN [ok |-> TRUE, val |-> DigitsValue(s)]
  ELSE IF Len(s) > 1 /\ s[1] \in {"-", "+"} /\ IsDigit(Tail(s))
    THEN [ok |-> TRUE,
          val |-> IF s[1] = "-" THEN 0 - DigitsValue(Tail(s)) ELSE DigitsValue(Tail(s))]
  ELSE [ok |-> FALSE, val |-> 0]

RECURSIVE LStrip(_)
LStrip(s) == IF Len(s) > 0 /\ s[1] \in Whitespace THEN LStrip(Tail(s)) ELSE s

RECURSIVE RStrip(_)
RStrip(s) ==
  IF Len(s) > 0 /\ s[Len(s)] \in Whitespace THEN RStrip(SubSeq(s, 1, Len(s) - 1)) ELSE s

\* str.strip()
Strip(s) == RStrip(LStrip(s))

\* str.startswith(p)
StartsWith(s, p) == Len(s) >= Len(p) /\ SubSeq(s, 1, Len(p)) = p

DocPrefix == <<"d", "o", "c", "_">>

\* f"doc_{n}"
DocId(n) == DocPrefix \o FormatNat(n)

\* f"document_{i}", the synthetic origin of the i-th inline document
DocumentLabel(i) == <<"document_">> \o FormatNat(i)

\* f"result_{i}", the identifier given to a raw result that is no pair
ResultLabel(i) == <<"r", "e", "s", "u", "l", "t", "_">> \o FormatNat(i)

\* JSON / Python values whose type the code inspects
JStr(s) == [t |-> "str", s |-> s]
JNum(n) == [t |-> "num", n |-> n]

(***************************************************************************)
(* The environment: the file system the directory walk sees and the        *)
(* values a command can carry.                                             *)
(***************************************************************************)
\* the extensions accepted by file.endswith((...))
AcceptedExtensions == {"md", "txt", "py", "js", "ts", "html", "css", "json"}

\* What os.path.exists and os.walk report for each directory a command can
\* name: files in walk order, each with its extension, whether open/read
\* succeeds, and its raw content.
FileSystem ==
  [d \in {"docs", "empty", "missing"} |->
     CASE d = "docs" ->
            [exists |-> TRUE,
             files |-> << [path |-> <<"docs/blank.txt">>, ext |-> "txt", readable |-> TRUE,
                           content |-> <<" ">>],
                          [path |-> <<"docs/bad.json">>, ext |-> "json", readable |-> FALSE,
                           content |-> <<"x">>],
                          [path |-> <<"docs/a.md">>, ext |-> "md", readable |-> TRUE,
                           content |-> <<"a", " ">>],
                          [path |-> <<"docs/img.png">>, ext |-> "png", readable |-> TRUE,
                           content |-> <<"p">>] >>]
       [] d = "empty" ->
            [exists |-> TRUE,
             files |-> << [path |-> <<"empty/blank.md">>, ext |-> "md", readable |-> TRUE,
                           content |-> <<" ", " ">>],
                          [path |-> <<"empty/img.png">>, ext |-> "png", readable |-> TRUE,
                           content |-> <<"p">>] >>]
       [] OTHER -> [exists |-> FALSE, files |-> << >>] ]

Directories == DOMAIN FileSystem

\* the strings an element of "documents" can be, and an element that is a
\* JSON number instead of a string
DocumentValues == {JStr(<<" ">>), JStr(<<"b">>)}

NotAString == JNum(7)

RECURSIVE SeqsUpTo(_, _)
SeqsUpTo(S, n) ==
  IF n = 0 THEN {<< >>}
  ELSE LET shorter == SeqsUpTo(S, n - 1)
       IN shorter \cup {Append(q, x) : q \in {r \in shorter : Len(r) = n - 1}, x \in S}

RetrieverTypes == {"sparse", "dense", "hybrid", "bm25"}

None == "None"

(***************************************************************************)
(* Document collection (process_index_command, lines 300-359).  acc is the *)
(* triple of lists the code appends to.                                    *)
(***************************************************************************)
EmptyCollection == [text_documents |-> << >>, file_paths |-> << >>, doc_ids |-> << >>,
                    raised |-> FALSE]

\* a walk that does not test whether the content it read is empty
CollectFile_KeepEmpty(acc, file) ==
  IF file.ext \notin AcceptedExtensions THEN acc
  ELSE IF ~file.readable THEN acc
  ELSE [acc EXCEPT
          !.text_documents = Append(@, [id |-> DocId(Len(acc.doc_ids)),
                                        text |-> Strip(file.content)]),
          !.file_paths = Append(@, file.path),
          !.doc_ids = Append(@, DocId(Len(acc.doc_ids)))]

\* lines 319-341: one file of the walk
CollectFile(acc, file) ==
  IF file.ext \notin AcceptedExtensions THEN acc
  ELSE IF ~file.readable THEN acc
  ELSE LET content == Strip(file.content)
       IN IF Len(content) > 0
            THEN [acc EXCEPT
                    !.text_documents = Append(@, [id |-> DocId(Len(acc.doc_ids)),
                                                  text |-> content]),
                    !.file_paths = Append(@, file.path),
                    !.doc_ids = Append(@, DocId(Len(acc.doc_ids)))]
            ELSE acc

RECURSIVE CollectFiles(_, _)
CollectFiles(acc, files) ==
  IF Len(files) = 0 THEN acc
  ELSE CollectFiles(CollectFile(acc, Head(files)), Tail(files))

\* a walk that a missing directory ends
RECURSIVE CollectDirectories_StopAtMissing(_, _)
CollectDirectories_StopAtMissing(acc, directories) ==
  IF Len(directories) = 0 THEN acc
  ELSE LET d == FileSystem[Head(directories)]
       IN IF d.exists
            THEN CollectDirectories_StopAtMissing(CollectFiles(acc, d.files),
                                                  Tail(directories))
            ELSE acc

\* lines 310-343: every directory in turn, a missing one skipped
RECURSIVE CollectDirectories(_, _)
CollectDirectories(acc, directories) ==
  IF Len(directories) = 0 THEN acc
  ELSE LET d == FileSystem[Head(directories)]
       IN CollectDirectories(IF d.exists THEN CollectFiles(acc, d.files) ELSE acc,
                             Tail(directories))

\* the identifier line 352 gives the inline document at position i (zero-based)
InlineDocId(acc, i) == DocId(i)

\* a collection that passes over an inline document that is no string
RECURSIVE CollectDocuments_SkipNonString(_, _, _)
CollectDocuments_SkipNonString(acc, documents, i) ==
  IF i >= Len(documents) THEN acc
  ELSE LET doc == documents[i + 1]
       IN IF doc.t = "str" /\ Len(Strip(doc.s)) > 0
            THEN CollectDocuments_SkipNonString(
                   [acc EXCEPT
                      !.text_documents = Append(@, [id |-> InlineDocId(acc, i),
                                                    text |-> doc.s]),
                      !.file_paths = Append(@, DocumentLabel(i)),
                      !.doc_ids = Append(@, InlineDocId(acc, i))],
                   documents, i + 1)
            ELSE CollectDocuments_SkipNonString(acc, documents, i + 1)

\* lines 349-359: the inline documents from position i (zero-based) on;
\* doc.strip() raises on a value that is no string
RECURSIVE CollectDocuments(_, _, _)
CollectDocuments(acc, documents, i) ==
  IF i >= Len(documents) THEN acc
  ELSE LET doc == documents[i + 1]
       IN IF doc.t # "str" THEN [acc EXCEPT !.raised = TRUE]
          ELSE IF Len(Strip(doc.s)) > 0
            THEN CollectDocuments(
                   [acc EXCEPT
                      !.text_documents = Append(@, [id |-> InlineDocId(acc, i),
                                                    text |-> doc.s]),
                      !.file_paths = Append(@, DocumentLabel(i)),
                      !.doc_ids = Append(@, InlineDocId(acc, i))],
                   documents, i + 1)
            ELSE CollectDocuments(acc, documents, i + 1)

\* lines 306-359: directories take precedence over documents
Collect(directories, documents) ==
  IF Len(directories) > 0 THEN CollectDirectories(EmptyCollection, directories)
  ELSE IF Len(documents) > 0 THEN CollectDocuments(EmptyCollection, documents, 0)
  ELSE EmptyCollection

(***************************************************************************)
(* State.                                                                  *)
(***************************************************************************)
VARIABLES
  retriever,      \* global retriever: None, or the variant of the retriever object
  indexed,        \* global indexed
  indexed_docs,   \* global indexed_docs: the stored texts
  indexed_files,  \* global indexed_files: the stored origins
  indexHandle,    \* the retriever object's index: whether one was built, and the
                  \* collected records (id, text, origin) it was built from
  stagingFile,    \* whether temp_docs_for_indexing.jsonl exists
  stdout,         \* the responses written since the host sent its last line,
                  \* in order
  trace,          \* what the processing of that line did (calls made, inputs
                  \* seen)
  succeededIndex, \* an index command has answered success since the start or
                  \* since the last configure_retriever that answered success
  invalidated,    \* a configure_retriever that answered success discarded a
                  \* successful index, and no index command has come since
  command,        \* the line the loop has read last, decoded
  running,        \* the command loop has not returned
  pending,        \* a line the host has sent waits on stdin to be read
  closed          \* the host has closed stdin

vars == <<retriever, indexed, indexed_docs, indexed_files, indexHandle, stagingFile,
          stdout, trace, succeededIndex, invalidated, command, running, pending, closed>>

NoIndex == [built |-> FALSE, corpus |-> << >>]

NoPayload == [directories |-> << >>, documents |-> << >>]

NoTrace == [cmd |-> "start", payload |-> NoPayload, primary |-> "none", fallback |-> "none",
            staged |-> FALSE, sample |-> "none", submitted |-> << >>,
            queried |-> FALSE, raw |-> << >>, action |-> << >>, instantiated |-> "",
            retriever_type |-> "", outcome |-> ""]

\* A line as main decodes it (lines 626-632) and as the handlers read its
\* fields: its kind, the directories and documents of an index command, the
\* query of a search command, the action field of a command that names none
\* of the three actions.
Command(kind, payload, query, action) ==
  [kind |-> kind, payload |-> payload, query |-> query, action |-> action]

NoCommand == Command("none", NoPayload, << >>, << >>)

\* lines 16-19, and the state of the world when the loop starts
Init ==
  /\ command = NoCommand
  /\ retriever = None
  /\ indexed = FALSE
  /\ indexed_docs = << >>
  /\ indexed_files = << >>
  /\ indexHandle = NoIndex
  /\ stagingFile = FALSE
  /\ stdout = << >>
  /\ trace = NoTrace
  /\ succeededIndex = FALSE
  /\ invalidated = FALSE
  /\ running = TRUE
  /\ pending = FALSE
  /\ closed = FALSE

\* the session state of the state machine, read off the globals
SessionState(r, ix) ==
  IF r = None THEN "Unconfigured" ELSE IF ix THEN "Indexed" ELSE "Configured"

\* a selection that makes no retriever of a retriever_type it does not know
VariantOf_Strict(retriever_type) ==
  IF retriever_type \in {"sparse", "dense", "hybrid"} THEN retriever_type ELSE None

\* the variant the if/elif/else on retriever_type instantiates
\* (lines 50, 80, 130 and 232, 246, 270)
VariantOf(retriever_type) ==
  IF retriever_type = "dense" THEN "dense"
  ELSE IF retriever_type = "hybrid" THEN "hybrid"
  ELSE "sparse"

(***************************************************************************)
(* configure_retriever (lines 34-203).                                     *)
(*   outcome "ok":           the constructor and the parameter code return *)
(*   outcome "import_error": from retriv import ... raises ImportError     *)
(*   outcome "raise_before": an exception before the assignment to the     *)
(*                           global (a bad option bag, the constructor)    *)
(*   outcome "raise_after":  an exception after the assignment; only the   *)
(*                           sparse branch has code there (lines 162-172)  *)
(***************************************************************************)
ConfigureOutcomes(retriever_type) ==
  {"ok", "import_error", "raise_before"}
    \cup (IF VariantOf(retriever_type) = "sparse" THEN {"raise_after"} ELSE {})

\* a configuration that forgets to reset the flag
IndexedAfterConfigure_Kept(ix) == ix

\* lines 185-187: the indexed flag after a configuration that got that far
IndexedAfterConfigure(ix) == FALSE

ProcessConfigure(retriever_type, outcome) ==
  LET assigned == outcome \in {"ok", "raise_after"}
      response ==
        CASE outcome = "ok" ->
               [status |-> "success",
                message |-> <<"Successfully configured ", retriever_type, " retriever">>]
          [] outcome = "import_error" ->
               [status |-> "error",
                message |-> <<"Failed to import ", VariantOf(retriever_type)>>]
          [] OTHER ->
               [status |-> "error", message |-> <<"exception">>, stack_trace |-> TRUE]
  IN /\ trace' = [NoTrace EXCEPT !.cmd = "configure_retriever",
                                  !.retriever_type = retriever_type,
                                  !.outcome = outcome]
     /\ retriever' = IF assigned THEN VariantOf(retriever_type) ELSE retriever
     /\ indexHandle' = IF assigned THEN NoIndex ELSE indexHandle
     /\ indexed' = IF outcome = "ok" THEN IndexedAfterConfigure(indexed) ELSE indexed
     /\ stdout' = <<response>>
     /\ succeededIndex' = IF response.status = "success" THEN FALSE ELSE succeededIndex
     /\ invalidated' = IF response.status = "success" THEN succeededIndex \/ invalidated
                       ELSE invalidated
     /\ UNCHANGED <<indexed_docs, indexed_files, stagingFile, running>>

\* line 625 hands the handler the line that waits on stdin
ReadLine == running /\ pending /\ pending' = FALSE /\ UNCHANGED closed

Configure ==
  /\ ReadLine
  /\ command' = Command("configure_retriever", NoPayload, << >>, << >>)
  /\ \E retriever_type \in RetrieverTypes :
       \E outcome \in ConfigureOutcomes(retriever_type) :
         ProcessConfigure(retriever_type, outcome)

(***************************************************************************)
(* index (lines 205-466).                                                  *)
(***************************************************************************)
\* What the backend does during one index command.  Only the calls the code
\* reaches are consulted: retriever.index (primaryOk), the sample query
\* (sampleOk), retriever.index_file (fallbackOk); survives says whether an
\* index built earlier is still in the retriever after both builds raised.
IndexBackends ==
  {[primaryOk |-> TRUE, sampleOk |-> so, fallbackOk |-> TRUE, survives |-> TRUE] :
     so \in BOOLEAN}
  \cup {[primaryOk |-> FALSE, sampleOk |-> TRUE, fallbackOk |-> TRUE, survives |-> TRUE]}
  \cup {[primaryOk |-> FALSE, sampleOk |-> TRUE, fallbackOk |-> FALSE, survives |-> sv] :
          sv \in BOOLEAN}

\* The directories / documents fields of an index command.
IndexPayloads ==
  {[directories |-> d, documents |-> << >>] : d \in SeqsUpTo(Directories, MaxDirs)}
  \cup {[directories |-> << >>, documents |-> x] : x \in SeqsUpTo(DocumentValues, MaxDocs)}
  \cup {[directories |-> <<d>>, documents |-> <<JStr(<<"b">>)>>] : d \in Directories}
  \cup {[directories |-> << >>, documents |-> x] :
          x \in {<<NotAString>>, <<JStr(<<"b">>), NotAString>>}}

\* the collection each payload yields (the file system does not change)
CollectionOf == [p \in IndexPayloads |-> Collect(p.directories, p.documents)]

\* the records (id, text, origin) of a finished collection
RecordsOf(coll) ==
  [k \in 1..Len(coll.text_documents) |->
     [id |-> coll.text_documents[k].id, text |-> coll.text_documents[k].text,
      origin |-> coll.file_paths[k]]]

\* line 362
TextsOf(coll) == [k \in 1..Len(coll.text_documents) |-> coll.text_documents[k].text]

\* a build that clears the flag when both attempts raise
IndexedAfterBuild_ClearedOnFailure(ix, primaryOk, fallbackOk) == primaryOk \/ fallbackOk

\* a build that sets the flag whatever became of the attempts
IndexedAfterBuild_Always(ix, primaryOk, fallbackOk) == TRUE

\* lines 386, 427: the indexed flag after the build attempts
IndexedAfterBuild(ix, primaryOk, fallbackOk) ==
  IF primaryOk \/ fallbackOk THEN TRUE ELSE ix

\* a fallback that never removes the file
StagingAfterFallback_NoRemove(fallbackOk) == TRUE

\* lines 418-425: the staging file after the fallback path ran; it is written
\* (created or truncated) and os.remove runs only if index_file returned
StagingAfterFallback(fallbackOk) == ~fallbackOk

\* a primary path whose sample query is not in a try of its own
PrimaryCompleted_SampleExposed(primaryOk, sampleOk) == primaryOk /\ sampleOk

\* lines 371-407: the try around the primary build runs to its end, without
\* reaching the except at line 408, if retriever.index returns; what the
\* sample query raises is caught at line 397
PrimaryCompleted(primaryOk, sampleOk) == primaryOk

\* lines 400-406 and 432-438
IndexSuccessResponse(coll) ==
  [status |-> "success", total_files |-> Len(coll.text_documents),
   file_paths |-> coll.file_paths, document_count |-> Len(coll.text_documents)]

ProcessIndex(payload, retriever_type, available, backend) ==
  LET needInit == retriever = None
      coll == CollectionOf[payload]
      setupError == [status |-> "error", message |-> <<"exception">>, stack_trace |-> TRUE]
      base == [NoTrace EXCEPT !.cmd = "index", !.payload = payload,
                              !.instantiated = IF needInit /\ available
                                                 THEN retriever_type ELSE ""]
  IN
  IF needInit /\ ~available THEN
       \* lines 243-245, 267-269, 294-296: raise, caught at line 457
       /\ trace' = base
       /\ stdout' = <<setupError>>
       /\ invalidated' = FALSE
       /\ UNCHANGED <<retriever, indexed, indexed_docs, indexed_files, indexHandle,
                      stagingFile, succeededIndex, running>>
  ELSE
    LET r1 == IF needInit THEN VariantOf(retriever_type) ELSE retriever
    IN
    IF coll.raised THEN
         \* an exception during collection, caught at line 457
         /\ trace' = base
         /\ retriever' = r1
         /\ stdout' = <<setupError>>
         /\ invalidated' = FALSE
         /\ UNCHANGED <<indexed, indexed_docs, indexed_files, indexHandle, stagingFile,
                        succeededIndex, running>>
    ELSE IF Len(coll.text_documents) = 0 THEN
         \* lines 361-363, 450-456
         /\ trace' = base
         /\ retriever' = r1
         /\ indexed_docs' = TextsOf(coll)
         /\ indexed_files' = coll.file_paths
         /\ stdout' = <<[status |-> "warning",
                         message |-> <<"No documents found to index">>,
                         total_files |-> 0]>>
         /\ invalidated' = FALSE
         /\ UNCHANGED <<indexed, indexHandle, stagingFile, succeededIndex, running>>
    ELSE
         \* lines 361-363, 368-449
         LET completed == PrimaryCompleted(backend.primaryOk, backend.sampleOk)
             built == completed \/ backend.fallbackOk
             response ==
               IF built THEN IndexSuccessResponse(coll)
               ELSE [status |-> "error",
                     message |-> <<"Error during indexing: ", "Alternative method error: ">>,
                     total_files |-> Len(coll.text_documents)]
         IN
         /\ trace' = [base EXCEPT
                        !.primary = IF backend.primaryOk THEN "ok" ELSE "raised",
                        !.fallback = IF completed THEN "none"
                                     ELSE IF backend.fallbackOk THEN "ok" ELSE "raised",
                        !.staged = ~completed,
                        !.sample = IF ~backend.primaryOk THEN "none"
                                   ELSE IF backend.sampleOk THEN "ok" ELSE "raised",
                        !.submitted = coll.text_documents]
         /\ retriever' = r1
         /\ indexed_docs' = TextsOf(coll)
         /\ indexed_files' = coll.file_paths
         /\ indexed' = IndexedAfterBuild(indexed, backend.primaryOk, backend.fallbackOk)
         /\ indexHandle' =
              IF built THEN [built |-> TRUE, corpus |-> RecordsOf(coll)]
              ELSE IF backend.survives THEN indexHandle ELSE NoIndex
         /\ stagingFile' =
              IF completed THEN stagingFile
              ELSE StagingAfterFallback(backend.fallbackOk)
         /\ stdout' = <<response>>
         /\ succeededIndex' = IF response.status = "success" THEN TRUE ELSE succeededIndex
         /\ invalidated' = FALSE
         /\ UNCHANGED running

\* The retriever_type values tried: every one while there is no retriever;
\* afterwards the field only selects a log line, and two values are tried.
\* Imports are consulted only while there is no retriever, and the backend
\* only if the collection is non-empty.
Index ==
  /\ ReadLine
  /\ \E payload \in IndexPayloads :
       /\ command' = Command("index", payload, << >>, << >>)
       /\ \E retriever_type \in (IF retriever = None THEN RetrieverTypes
                                  ELSE {"sparse", "dense"}) :
            \E available \in (IF retriever = None THEN BOOLEAN ELSE {TRUE}) :
              \E backend \in (IF Len(CollectionOf[payload].text_documents) = 0
                                 THEN {CHOOSE b \in IndexBackends :
                                         b.primaryOk /\ b.sampleOk}
                                 ELSE IndexBackends) :
                ProcessIndex(payload, retriever_type, available, backend)

(***************************************************************************)
(* search (lines 468-567) and the result mapper (lines 509-550).           *)
(***************************************************************************)
JAbsent == [t |-> "absent"]

Unknown == <<"Unknown">>

\* f"[Content not available for {doc_id}]"
ContentNotAvailable(doc_id) ==
  <<"[Content not available for ">>
    \o (IF doc_id.t = "str" THEN doc_id.s ELSE <<"#">>) \o <<"]">>

\* int(doc_id) as line 535 evaluates it: both arms of the conditional call int()
IntOf(doc_id) ==
  CASE doc_id.t = "str" -> ParseInt(doc_id.s)
    [] doc_id.t = "num" -> [ok |-> TRUE, val |-> doc_id.n]
    [] OTHER -> [ok |-> FALSE, val |-> 0]

\* lines 514-528: a dict result
MapDict(result, i, files) ==
  LET doc_id == IF result.id = JAbsent THEN JStr(DocId(i)) ELSE result.id
      score == IF result.score = JAbsent THEN JNum(0) ELSE result.score
      content == IF result.text = JAbsent THEN << >> ELSE result.text.s
      parsed == IF doc_id.t = "str" /\ StartsWith(doc_id.s, DocPrefix)
                  THEN ParseInt(SubSeq(doc_id.s, Len(DocPrefix) + 1, Len(doc_id.s)))
                  ELSE [ok |-> FALSE, val |-> 0]
      file_path == IF parsed.ok /\ 0 <= parsed.val /\ parsed.val < Len(files)
                     THEN files[parsed.val + 1] ELSE Unknown
  IN [score |-> score, content |-> content, file_path |-> file_path]

\* the branch for results that are no dict, with nothing put in the place
\* of the content and the origin of an unresolved identifier
MapTuple_NoPlaceholder(result, i, docs, files) ==
  LET isPair == result.shape = "pair"
      doc_id == IF isPair THEN result.id ELSE JStr(ResultLabel(i))
      score == IF isPair THEN result.score ELSE JNum(1)
      parsed == IntOf(doc_id)
      inDocs == parsed.ok /\ 0 <= parsed.val /\ parsed.val < Len(docs)
      inFiles == parsed.ok /\ 0 <= parsed.val /\ parsed.val < Len(files)
  IN [score |-> score,
      content |-> IF inDocs THEN docs[parsed.val + 1] ELSE << >>,
      file_path |-> IF inFiles THEN files[parsed.val + 1] ELSE << >>]

\* lines 529-540: a result that is no dict
MapTuple(result, i, docs, files) ==
  LET isPair == result.shape = "pair"
      doc_id == IF isPair THEN result.id ELSE JStr(ResultLabel(i))
      score == IF isPair THEN result.score ELSE JNum(1)
      parsed == IntOf(doc_id)
  IN IF parsed.ok
       THEN [score |-> score,
             content |-> IF 0 <= parsed.val /\ parsed.val < Len(docs)
                           THEN docs[parsed.val + 1] ELSE ContentNotAvailable(doc_id),
             file_path |-> IF 0 <= parsed.val /\ parsed.val < Len(files)
                             THEN files[parsed.val + 1] ELSE Unknown]
       ELSE [score |-> score, content |-> ContentNotAvailable(doc_id),
             file_path |-> Unknown]

\* the mapper putting each new entry in front of those it has made
RECURSIVE FormatResults_Prepending(_, _, _, _)
FormatResults_Prepending(results, i, docs, files) ==
  IF i >= Len(results) THEN << >>
  ELSE LET result == results[i + 1]
           m == IF result.shape = "dict" THEN MapDict(result, i, files)
                ELSE MapTuple(result, i, docs, files)
           rest == FormatResults_Prepending(results, i + 1, docs, files)
       IN IF m.score.t = "num"
            THEN rest \o <<[index |-> i, score |-> m.score.n, content |-> m.content,
                            file_path |-> m.file_path]>>
            ELSE rest

\* lines 511-550: the results from position i (zero-based) on; an entry whose
\* float(score) raises is logged and left out
RECURSIVE FormatResults(_, _, _, _)
FormatResults(results, i, docs, files) ==
  IF i >= Len(results) THEN << >>
  ELSE LET result == results[i + 1]
           m == IF result.shape = "dict" THEN MapDict(result, i, files)
                ELSE MapTuple(result, i, docs, files)
           rest == FormatResults(results, i + 1, docs, files)
       IN IF m.score.t = "num"
            THEN <<[index |-> i, score |-> m.score.n, content |-> m.content,
                    file_path |-> m.file_path]>> \o rest
            ELSE rest

\* the gate with the test of the indexed flag left out
SearchGated_NoFlagTest(r, ix) == r = None

\* line 474
SearchGated(r, ix) == ~ix \/ r = None

\* The shapes in which a backend reports a hit on a record of its index:
\* a dict with id, score and text; an (id, score) pair with the identifier
\* given at index time; an (ordinal, score) pair; a bare value.
ResultShapes == {"dict", "pair", "ordinal", "bare"}

JNone == [t |-> "none"]

\* The entry of a result list that stands for no record of the corpus the
\* index was built from.
Foreign == 0

\* The entry reporting a hit on record k.  The score belongs to the record,
\* so a list is not ordered by score in general (a backend may rank by
\* distance as well as by similarity).  The foreign entry is, as a dict, a
\* record the index holds from elsewhere, whose identifier is not of the
\* session's making; as an (id, score) pair, a pair whose score is None; as
\* an (ordinal, score) pair, a pair whose ordinal is negative.
RawResult(shape, corpus, k) ==
  LET id == IF k = Foreign THEN JStr(<<"x">>) ELSE JStr(corpus[k].id)
      ordinal == IF k = Foreign THEN JNum(0 - 1) ELSE JNum(k - 1)
      text == IF k = Foreign THEN JStr(<<"z">>) ELSE JStr(corpus[k].text)
  IN CASE shape = "dict" ->
            [shape |-> "dict", id |-> id, score |-> JNum(k), text |-> text]
       [] shape = "pair" ->
            [shape |-> "pair", id |-> id,
             score |-> IF k = Foreign THEN JNone ELSE JNum(k), text |-> JAbsent]
       [] shape = "ordinal" ->
            [shape |-> "pair", id |-> ordinal, score |-> JNum(k), text |-> JAbsent]
       [] OTHER ->
            [shape |-> "bare", id |-> JAbsent, score |-> JAbsent, text |-> JAbsent]

IsInjective(q) == \A a, b \in 1..Len(q) : q[a] = q[b] => a = b

\* What retriever.search can return: it raises, or it returns a list of
\* distinct entries, all in one shape.
SearchBackends ==
  {[raises |-> TRUE, results |-> << >>]}
  \cup {[raises |-> FALSE,
         results |-> [j \in 1..Len(hits) |->
                        RawResult(shape, indexHandle.corpus, hits[j])]] :
          shape \in ResultShapes,
          hits \in {h \in SeqsUpTo((1..Len(indexHandle.corpus)) \cup {Foreign},
                                   MaxResults) :
                      IsInjective(h)}}

Queries == {<< >>, <<"a">>}

\* a search that gives up the index when the backend raises
ProcessSearch_DroppingOnException(query, backend) ==
  LET base == [NoTrace EXCEPT !.cmd = "search"]
      reached == ~SearchGated(retriever, indexed) /\ Len(query) # 0
  IN
  /\ IF SearchGated(retriever, indexed) THEN
          /\ trace' = base
          /\ stdout' = <<[action |-> "search_results", results |-> << >>,
                          error |-> <<"No documents have been indexed yet">>]>>
     ELSE IF Len(query) = 0 THEN
          /\ trace' = base
          /\ stdout' = <<[action |-> "search_results", results |-> << >>,
                          error |-> <<"Empty query provided">>]>>
     ELSE IF backend.raises THEN
          /\ trace' = [base EXCEPT !.queried = TRUE]
          /\ stdout' = <<[action |-> "search_results", results |-> << >>,
                          error |-> <<"exception">>, stack_trace |-> TRUE]>>
     ELSE
          /\ trace' = [base EXCEPT !.queried = TRUE, !.raw = backend.results]
          /\ stdout' = <<[action |-> "search_results",
                          results |-> FormatResults(backend.results, 0, indexed_docs,
                                                    indexed_files)]>>
  /\ indexed' = (indexed /\ ~(reached /\ backend.raises))
  /\ UNCHANGED <<retriever, indexed_docs, indexed_files, indexHandle, stagingFile,
                 succeededIndex, invalidated, running>>

ProcessSearch(query, backend) ==
  LET base == [NoTrace EXCEPT !.cmd = "search"]
  IN
  /\ IF SearchGated(retriever, indexed) THEN
          /\ trace' = base
          /\ stdout' = <<[action |-> "search_results", results |-> << >>,
                          error |-> <<"No documents have been indexed yet">>]>>
     ELSE IF Len(query) = 0 THEN
          /\ trace' = base
          /\ stdout' = <<[action |-> "search_results", results |-> << >>,
                          error |-> <<"Empty query provided">>]>>
     ELSE IF backend.raises THEN
          /\ trace' = [base EXCEPT !.queried = TRUE]
          /\ stdout' = <<[action |-> "search_results", results |-> << >>,
                          error |-> <<"exception">>, stack_trace |-> TRUE]>>
     ELSE
          /\ trace' = [base EXCEPT !.queried = TRUE, !.raw = backend.results]
          /\ stdout' = <<[action |-> "search_results",
                          results |-> FormatResults(backend.results, 0, indexed_docs,
                                                    indexed_files)]>>
  /\ UNCHANGED <<retriever, indexed, indexed_docs, indexed_files, indexHandle, stagingFile,
                 succeededIndex, invalidated, running>>

Search ==
  /\ ReadLine
  /\ \E query \in Queries :
       /\ command' = Command("search", NoPayload, query, << >>)
       /\ \E backend \in (IF SearchGated(retriever, indexed) \/ Len(query) = 0
                            THEN {[raises |-> TRUE, results |-> << >>]}
                            ELSE SearchBackends) :
            ProcessSearch(query, backend)

(***************************************************************************)
(* The command loop (lines 624-657): the lines that no handler answers.    *)
(***************************************************************************)
\* kinds of line: blank; not JSON; JSON that is no object (command.get
\* raises at line 632); an object whose action is none of the three; an
\* index command whose options field is no object (options.get raises at
\* line 222, before the handler's try, and main's handler at line 651
\* answers)
OtherLines == {"blank", "bad_json", "not_object", "unknown_action", "bad_options"}

\* the action field of a command that names none of the three actions; a
\* command without the field has the action ""
UnknownActions == {<<"frobnicate">>, << >>}

\* a loop without the handler at line 651: an exception the command raises
\* is logged and nothing is written
ProcessOtherLine_NoCatchAll(kind, action) ==
  /\ trace' = [NoTrace EXCEPT !.cmd = kind, !.action = action]
  /\ stdout' = CASE kind = "bad_json" -> <<[error |-> <<"Invalid JSON command">>]>>
                 [] kind = "unknown_action" ->
                      <<[error |-> <<"Unknown action: ">> \o action]>>
                 [] OTHER -> << >>
  /\ UNCHANGED <<retriever, indexed, indexed_docs, indexed_files, indexHandle, stagingFile,
                 succeededIndex, invalidated, running>>

\* a loop that an exception raised by a command ends
ProcessOtherLine_Uncaught(kind, action) ==
  /\ trace' = [NoTrace EXCEPT !.cmd = kind, !.action = action]
  /\ stdout' = CASE kind = "blank" -> << >>
                 [] kind = "bad_json" -> <<[error |-> <<"Invalid JSON command">>]>>
                 [] kind = "unknown_action" ->
                      <<[error |-> <<"Unknown action: ">> \o action]>>
                 [] OTHER -> <<[error |-> <<"exception">>]>>
  /\ running' = (kind \notin {"not_object", "bad_options"})
  /\ UNCHANGED <<retriever, indexed, indexed_docs, indexed_files, indexHandle, stagingFile,
                 succeededIndex, invalidated>>

\* a loop in which a line that is no command drops the index
ProcessOtherLine_Resetting(kind, action) ==
  /\ trace' = [NoTrace EXCEPT !.cmd = kind, !.action = action]
  /\ stdout' = CASE kind = "blank" -> << >>
                 [] kind = "bad_json" -> <<[error |-> <<"Invalid JSON command">>]>>
                 [] kind = "unknown_action" ->
                      <<[error |-> <<"Unknown action: ">> \o action]>>
                 [] OTHER -> <<[error |-> <<"exception">>]>>
  /\ indexed' = (indexed /\ kind \notin {"bad_json", "unknown_action"})
  /\ UNCHANGED <<retriever, indexed_docs, indexed_files, indexHandle, stagingFile,
                 succeededIndex, invalidated, running>>

ProcessOtherLine(kind, action) ==
  /\ trace' = [NoTrace EXCEPT !.cmd = kind, !.action = action]
  /\ stdout' = CASE kind = "blank" -> << >>
                 [] kind = "bad_json" -> <<[error |-> <<"Invalid JSON command">>]>>
                 [] kind = "unknown_action" ->
                      <<[error |-> <<"Unknown action: ">> \o action]>>
                 [] OTHER -> <<[error |-> <<"exception">>]>>
  /\ UNCHANGED <<retriever, indexed, indexed_docs, indexed_files, indexHandle, stagingFile,
                 succeededIndex, invalidated, running>>

OtherLine ==
  /\ ReadLine
  /\ \E kind \in OtherLines :
       \E action \in (IF kind = "unknown_action" THEN UnknownActions ELSE {<< >>}) :
         /\ command' = Command(kind, NoPayload, << >>, action)
         /\ ProcessOtherLine(kind, action)

\* stdin is closed and holds no more line: the for loop ends and main returns
EndOfInput ==
  /\ running
  /\ closed
  /\ ~pending
  /\ running' = FALSE
  /\ command' = NoCommand
  /\ stdout' = << >>
  /\ trace' = [NoTrace EXCEPT !.cmd = "eof"]
  /\ UNCHANGED <<retriever, indexed, indexed_docs, indexed_files, indexHandle, stagingFile,
                 succeededIndex, invalidated, pending, closed>>

\* One step of the loop at line 625: a handler, or the end of the loop.
LoopStep == Configure \/ Index \/ Search \/ OtherLine \/ EndOfInput

(***************************************************************************)
(* The host at the other end of stdin and stdout.  It sends the next line  *)
(* once it has read what the previous one was answered (commands are not   *)
(* overlapped), and it may close stdin at any time.                        *)
(***************************************************************************)
HostSends ==
  /\ ~closed
  /\ ~pending
  /\ pending' = TRUE
  /\ command' = NoCommand
  /\ stdout' = << >>
  /\ trace' = NoTrace
  /\ UNCHANGED <<retriever, indexed, indexed_docs, indexed_files, indexHandle, stagingFile,
                 succeededIndex, invalidated, running, closed>>

HostCloses ==
  /\ ~closed
  /\ closed' = TRUE
  /\ UNCHANGED <<retriever, indexed, indexed_docs, indexed_files, indexHandle, stagingFile,
                 stdout, trace, succeededIndex, invalidated, command, running, pending>>

Next == Configure \/ Index \/ Search \/ OtherLine \/ EndOfInput \/ HostSends \/ HostCloses

Spec == Init /\ [][Next]_vars

\* Every call into the backend returns or raises, so a handler that has a
\* line to read completes, and the loop ends once stdin is exhausted.
LiveSpec == Spec /\ WF_vars(LoopStep)

(***************************************************************************)
(* Properties.                                                             *)
(***************************************************************************)
NotIndexedResponse ==
  [action |-> "search_results", results |-> << >>,
   error |-> <<"No documents have been indexed yet">>]

\* the step is the processing of a line of the given kind
Did(cmd) == trace'.cmd = cmd

\* the status of the one response on stdout, "" if there is none
StatusOf(out) == IF Len(out) = 1 /\ "status" \in DOMAIN out[1] THEN out[1].status ELSE ""

OriginsOf(corpus) == [k \in 1..Len(corpus) |-> corpus[k].origin]

CorpusTextsOf(corpus) == [k \in 1..Len(corpus) |-> corpus[k].text]

\* C1: a search issued while no index command has succeeded since the start
\* or since the last successful configure_retriever is answered with the
\* "No documents have been indexed yet" response, and retriever.search is not
\* called.
C1_SearchGating ==
  [][(Did("search") /\ ~succeededIndex)
       => (stdout' = <<NotIndexedResponse>> /\ ~trace'.queried)]_vars

\* C1 witness: a search answered in a session that was configured (and whose
\* retriever holds no index) but in which no index command has succeeded.
C1_Witness ==
  /\ trace.cmd = "search"
  /\ ~succeededIndex
  /\ ~invalidated
  /\ retriever # None
  /\ stdout = <<NotIndexedResponse>>

\* C2: a configure_retriever that succeeds in an Indexed session leaves the
\* session Configured, and from then until the next index command every
\* search is answered with the "not indexed yet" empty-result response.
C2_ReconfigureInvalidates ==
  [][/\ (Did("configure_retriever") /\ StatusOf(stdout') = "success"
           /\ SessionState(retriever, indexed) = "Indexed")
          => SessionState(retriever', indexed') = "Configured"
     /\ (Did("search") /\ invalidated)
          => (stdout' = <<NotIndexedResponse>> /\ ~trace'.queried)]_vars

\* C2 witness: a search answered after a successful index was discarded by a
\* successful configure_retriever; the corpus of that index is still stored.
C2_Witness ==
  /\ trace.cmd = "search"
  /\ invalidated
  /\ Len(indexed_docs) > 0
  /\ stdout = <<NotIndexedResponse>>

\* C3: whenever the session is Indexed and its retriever holds an index, the
\* stored texts and origins are those of the corpus that index was built
\* from.
C3_IndexCorpusBinding ==
  (SessionState(retriever, indexed) = "Indexed" /\ indexHandle.built)
    => /\ indexed_docs = CorpusTextsOf(indexHandle.corpus)
       /\ indexed_files = OriginsOf(indexHandle.corpus)

\* C4: an index command that answers status error after both builds raised,
\* or status warning, leaves indexed_docs and indexed_files as they were.
C4_CorpusReplacedOnlyOnSuccess ==
  [][(Did("index")
        /\ \/ (StatusOf(stdout') = "error" /\ trace'.fallback = "raised")
           \/ StatusOf(stdout') = "warning")
       => (indexed_docs' = indexed_docs /\ indexed_files' = indexed_files)]_vars

\* C5: an index command issued in a Configured or Indexed session whose
\* primary and fallback builds both raise answers status error and leaves
\* the session state as it was; an index command moves the session to
\* Indexed only if one of the two builds returned.
C5_TotalFailureKeepsState ==
  [][Did("index")
       => /\ (trace'.primary = "raised" /\ trace'.fallback = "raised"
                /\ SessionState(retriever, indexed) \in {"Configured", "Indexed"})
               => /\ StatusOf(stdout') = "error"
                  /\ SessionState(retriever', indexed') = SessionState(retriever, indexed)
          /\ (SessionState(retriever', indexed') = "Indexed"
                /\ SessionState(retriever, indexed) # "Indexed")
               => (trace'.primary = "ok" \/ trace'.fallback = "ok")]_vars

\* C5 witness: an Indexed session after an index command whose two builds
\* both raised.
C5_Witness ==
  /\ trace.cmd = "index"
  /\ trace.primary = "raised"
  /\ trace.fallback = "raised"
  /\ StatusOf(stdout) = "error"
  /\ SessionState(retriever, indexed) = "Indexed"

\* C6: between two commands the staging file does not exist.
C6_StagingFileAbsent == ~stagingFile

\* C7: the staging file is written only if the primary build raised; if the
\* primary build raises and the file-based build returns, the response is
\* the success response with document_count the number of documents
\* submitted, the session is Indexed and the staging file is gone.
C7_FallbackCorrectness ==
  [][Did("index")
       => /\ trace'.staged => trace'.primary = "raised"
          /\ trace'.fallback # "none" => trace'.primary = "raised"
          /\ (trace'.primary = "raised" /\ trace'.fallback = "ok")
               => /\ StatusOf(stdout') = "success"
                  /\ stdout'[1].document_count = Len(trace'.submitted)
                  /\ stdout'[1].total_files = Len(trace'.submitted)
                  /\ SessionState(retriever', indexed') = "Indexed"
                  /\ ~stagingFile']_vars

\* C7 witness: a session that became Indexed through the fallback path.
C7_Witness ==
  /\ trace.cmd = "index"
  /\ trace.primary = "raised"
  /\ trace.fallback = "ok"
  /\ trace.staged
  /\ StatusOf(stdout) = "success"
  /\ indexed
  /\ ~stagingFile

\* C8: after an index command that answers success, document_count is the
\* number of documents submitted to the retriever and the k-th submitted
\* document has identifier doc_(k-1).
C8_DenseIdentifiers ==
  (trace.cmd = "index" /\ StatusOf(stdout) = "success")
    => /\ stdout[1].document_count = Len(trace.submitted)
       /\ \A k \in 1..Len(trace.submitted) : trace.submitted[k].id = DocId(k - 1)

\* the session holds the corpus its retriever's index was built from
CorpusBound ==
  /\ indexed
  /\ indexHandle.built
  /\ indexed_docs = CorpusTextsOf(indexHandle.corpus)
  /\ indexed_files = OriginsOf(indexHandle.corpus)

\* C9: in a session that holds the corpus of its index, every search result
\* made from a raw result whose identifier is the id given to a document at
\* index time has that document's origin as file_path.
C9_OriginReconciliation ==
  (trace.cmd = "search" /\ trace.queried /\ CorpusBound)
    => \A j \in 1..Len(stdout[1].results) :
         LET entry == stdout[1].results[j]
             raw == trace.raw[entry.index + 1]
         IN \A k \in 1..Len(indexHandle.corpus) :
              raw.id = JStr(indexHandle.corpus[k].id)
                => entry.file_path = indexHandle.corpus[k].origin

\* C10: a raw (identifier, score) pair whose identifier is the string
\* doc_<n> with 0 <= n < len(indexed_docs) becomes a result with the text
\* and the origin of the n-th stored record.
C10_PairResolution ==
  (trace.cmd = "search" /\ trace.queried)
    => \A j \in 1..Len(stdout[1].results) :
         LET entry == stdout[1].results[j]
             raw == trace.raw[entry.index + 1]
         IN \A n \in 0..(Len(indexed_docs) - 1) :
              (raw.shape = "pair" /\ raw.id = JStr(DocId(n)))
                => /\ entry.content = indexed_docs[n + 1]
                   /\ entry.file_path = indexed_files[n + 1]

\* the search reached retriever.search and the mapper ran on what it returned
Mapped ==
  /\ trace.cmd = "search"
  /\ trace.queried
  /\ Len(stdout) = 1
  /\ "error" \notin DOMAIN stdout[1]

\* the score a raw result carries, as the mapper reads it
RawScore(raw) ==
  CASE raw.shape = "bare" -> JNum(1)
    [] raw.score = JAbsent -> JNum(0)
    [] OTHER -> raw.score

\* C11: the results of a search response are in the order in which the
\* backend returned them: the index fields are positions of the backend's
\* list and increase strictly along the response, and each result carries the
\* score of the raw result at the position its index field names.
C11_ResultOrdering ==
  Mapped
    => LET res == stdout[1].results
       IN /\ \A j \in 1..Len(res) :
               /\ res[j].index \in 0..(Len(trace.raw) - 1)
               /\ RawScore(trace.raw[res[j].index + 1]) = JNum(res[j].score)
          /\ \A j, k \in 1..Len(res) : j < k => res[j].index < res[k].index

\* C11 witness: a response with two results whose scores increase along the
\* list, so that ordering by score would have exchanged them.
C11_Witness ==
  /\ Mapped
  /\ Len(stdout[1].results) = 2
  /\ stdout[1].results[1].score < stdout[1].results[2].score

\* retriever.search returned a list that is not empty
Returned == trace.cmd = "search" /\ trace.queried /\ Len(trace.raw) > 0

\* the identifier of the raw result at position pos (zero-based) parses, the
\* way the mapper parses identifiers of its shape, to an index of the stored
\* corpus
Resolves(raw, pos) ==
  CASE raw.shape = "dict" ->
         LET id == IF raw.id = JAbsent THEN JStr(DocId(pos)) ELSE raw.id
         IN \E n \in 0..(Len(indexed_files) - 1) : id = JStr(DocId(n))
    [] raw.shape = "pair" ->
         \E n \in 0..(Len(indexed_docs) - 1) :
           \/ raw.id = JNum(n)
           \/ raw.id = JStr(FormatNat(n))
    [] OTHER -> FALSE

IsPlaceholder(content) ==
  Len(content) >= 1 /\ content[1] = "[Content not available for "

\* the response has no error field and holds a result for every raw result
\* that carries a score
NoResultLost ==
  /\ Len(stdout) = 1
  /\ "error" \notin DOMAIN stdout[1]
  /\ \A pos \in 0..(Len(trace.raw) - 1) :
       RawScore(trace.raw[pos + 1]).t = "num"
         => \E j \in 1..Len(stdout[1].results) : stdout[1].results[j].index = pos

\* C12: a raw result of any shape whose identifier cannot be parsed or names
\* an index outside the stored corpus becomes a result with placeholder
\* content and the origin "Unknown"; the search does not fail: the response
\* has no error field and holds the other results.
C12_DegradedPlaceholder ==
  Returned
    => /\ NoResultLost
       /\ \A j \in 1..Len(stdout[1].results) :
            LET entry == stdout[1].results[j]
            IN ~Resolves(trace.raw[entry.index + 1], entry.index)
                 => /\ IsPlaceholder(entry.content)
                    /\ entry.file_path = Unknown

\* C12, amended: such a result has the origin "Unknown"; its content is the
\* placeholder when the raw result is a pair or a bare value, and the text
\* the raw result carries itself (empty when it carries none) when it is a
\* structured record.  The response has no error field and holds the other
\* results.
C12_DegradedResult ==
  Returned
    => /\ NoResultLost
       /\ \A j \in 1..Len(stdout[1].results) :
            LET entry == stdout[1].results[j]
                raw == trace.raw[entry.index + 1]
            IN ~Resolves(raw, entry.index)
                 => /\ entry.file_path = Unknown
                    /\ raw.shape # "dict" => IsPlaceholder(entry.content)
                    /\ raw.shape = "dict"
                         => entry.content = (IF raw.text = JAbsent THEN << >>
                                             ELSE raw.text.s)

\* C12 witness: a response of two results, the first made from a structured
\* record with an identifier that does not parse, the second resolved.
C12_Witness ==
  /\ Returned
  /\ Len(stdout[1].results) = 2
  /\ trace.raw[1].shape = "dict"
  /\ ~Resolves(trace.raw[1], 0)
  /\ stdout[1].results[1].file_path = Unknown
  /\ Resolves(trace.raw[2], 1)
  /\ stdout[1].results[2].file_path # Unknown

\* C13: a configure_retriever command that answers status error leaves the
\* retriever with its index, the indexed flag and the stored corpus as they
\* were, so that an Indexed session can still search its previous index.
C13_FailedConfigureKeepsState ==
  [][(Did("configure_retriever") /\ StatusOf(stdout') = "error")
       => /\ retriever' = retriever
          /\ indexHandle' = indexHandle
          /\ indexed' = indexed
          /\ indexed_docs' = indexed_docs
          /\ indexed_files' = indexed_files]_vars

\* C14: a configure_retriever command that answers success leaves the session
\* with no stored corpus (both tables empty) and with no usable index.
C14_ConfigureDiscardsCorpus ==
  [][(Did("configure_retriever") /\ StatusOf(stdout') = "success")
       => /\ indexed_docs' = << >>
          /\ indexed_files' = << >>
          /\ ~indexed'
          /\ ~indexHandle'.built]_vars

\* C15: the session never moves from Unconfigured directly to Indexed.
C15_NoDirectIndexing ==
  [][~(/\ SessionState(retriever, indexed) = "Unconfigured"
       /\ SessionState(retriever', indexed') = "Indexed")]_vars

\* C15, amended: the session moves from Unconfigured directly to Indexed only
\* by an index command that answers success after instantiating, itself, a
\* retriever of the variant its retriever_type field names; and whenever the
\* indexed flag is set the session holds a retriever.
C15_IndexInstantiatesRetriever ==
  [][/\ (/\ SessionState(retriever, indexed) = "Unconfigured"
         /\ SessionState(retriever', indexed') = "Indexed")
          => /\ Did("index")
             /\ StatusOf(stdout') = "success"
             /\ trace'.instantiated \in RetrieverTypes
             /\ retriever' = VariantOf(trace'.instantiated)
     /\ indexed' => retriever' # None]_vars

\* C15 witness: an Indexed session whose retriever an index command made.
C15_Witness ==
  /\ trace.cmd = "index"
  /\ trace.instantiated \in RetrieverTypes
  /\ StatusOf(stdout) = "success"
  /\ SessionState(retriever, indexed) = "Indexed"

\* the kinds of line that are not blank
NonBlankLines ==
  {"configure_retriever", "index", "search"} \cup (OtherLines \ {"blank"})

\* C16: every line that is not blank (a command, an unknown action, text
\* that is not JSON, JSON that is no object, a command whose processing
\* raises) has exactly one JSON object written to stdout by the time its
\* processing ends, which is before the next line is read.
C16_OneResponsePerLine ==
  trace.cmd \in NonBlankLines => Len(stdout) = 1

\* C16 witness: the one response to a command whose processing raised.
C16_Witness ==
  /\ trace.cmd = "bad_options"
  /\ Len(stdout) = 1
  /\ DOMAIN stdout[1] = {"error"}

\* C17: no outcome of a command ends the loop: the loop ends only when stdin
\* is closed and no line waits to be read.  Every line the host sends is
\* eventually read and processed (no line waits for ever), and once stdin is
\* closed the process eventually terminates (closed and terminated are both
\* stable, so the recurrence says that closing leads to termination).
C17_LoopLiveness ==
  /\ [][(running /\ ~running') => (closed /\ ~pending)]_vars
  /\ []<>(~pending)
  /\ []<>(~closed \/ ~running)

\* C17 witness: the process has terminated, with stdin closed and every line
\* consumed, after a session in which commands were processed.
C17_Witness ==
  /\ ~running
  /\ closed
  /\ ~pending
  /\ indexed

\* the step leaves the retriever with its index, the indexed flag and the
\* stored corpus as they were
SessionUnchanged ==
  /\ retriever' = retriever
  /\ indexHandle' = indexHandle
  /\ indexed' = indexed
  /\ indexed_docs' = indexed_docs
  /\ indexed_files' = indexed_files

\* C18: a line that is not valid JSON is answered {error: "Invalid JSON
\* command"}, a command with an unknown action is answered {error: "Unknown
\* action: <action>"} with the action it named, and either leaves the
\* retriever, the indexed flag and the stored corpus unchanged.
C18_ProtocolErrorsHarmless ==
  [][/\ Did("bad_json")
          => /\ stdout' = <<[error |-> <<"Invalid JSON command">>]>>
             /\ SessionUnchanged
     /\ Did("unknown_action")
          => /\ stdout' = <<[error |-> <<"Unknown action: ">> \o trace'.action]>>
             /\ SessionUnchanged]_vars

\* C18 witness: an Indexed session after the answer to an unknown action.
C18_Witness ==
  /\ trace.cmd = "unknown_action"
  /\ stdout = <<[error |-> <<"Unknown action: ", "frobnicate">>]>>
  /\ indexed
  /\ indexHandle.built

\* the file is one the walk accepts, reads and finds not empty
FileCounts(file) ==
  /\ file.ext \in AcceptedExtensions
  /\ file.readable
  /\ \E k \in 1..Len(file.content) : file.content[k] \notin Whitespace

\* the paths of the files that count, over the directories in turn
RECURSIVE ExpectedPaths(_)
ExpectedPaths(directories) ==
  IF Len(directories) = 0 THEN << >>
  ELSE LET d == FileSystem[Head(directories)]
       IN (IF d.exists
             THEN [k \in 1..Len(SelectSeq(d.files, FileCounts)) |->
                     SelectSeq(d.files, FileCounts)[k].path]
             ELSE << >>)
          \o ExpectedPaths(Tail(directories))

\* the command names directories of which none exists with a file that
\* counts, or names no directory and only inline strings that are empty
\* once trimmed
NothingToIndex(payload) ==
  IF Len(payload.directories) > 0
    THEN ExpectedPaths(payload.directories) = << >>
    ELSE \A k \in 1..Len(payload.documents) :
           /\ payload.documents[k].t = "str"
           /\ \A c \in 1..Len(payload.documents[k].s) :
                payload.documents[k].s[c] \in Whitespace

NoDocumentsResponse ==
  [status |-> "warning", message |-> <<"No documents found to index">>, total_files |-> 0]

\* C19: an index command with nothing to index is answered with the "No
\* documents found to index" warning, calls no build, and does not make the
\* session Indexed; and a missing directory does not keep the directories
\* after it from being walked.
C19_EmptyCollectionWarning ==
  [][Did("index")
       => /\ NothingToIndex(trace'.payload)
               => /\ stdout' = <<NoDocumentsResponse>>
                  /\ trace'.primary = "none"
                  /\ trace'.fallback = "none"
                  /\ indexed' = indexed
          /\ (Len(trace'.payload.directories) > 0 /\ StatusOf(stdout') # "error")
               => indexed_files' = ExpectedPaths(trace'.payload.directories)]_vars

\* C19, amended: the same, of an index command that is issued while the
\* session holds a retriever or that succeeds in instantiating one; an
\* index command that cannot instantiate a retriever is answered status
\* error whatever it names.
C19_EmptyCollectionWarningWithRetriever ==
  [][(Did("index") /\ retriever' # None)
       => /\ NothingToIndex(trace'.payload)
               => /\ stdout' = <<NoDocumentsResponse>>
                  /\ trace'.primary = "none"
                  /\ trace'.fallback = "none"
                  /\ indexed' = indexed
          /\ (Len(trace'.payload.directories) > 0 /\ StatusOf(stdout') # "error")
               => indexed_files' = ExpectedPaths(trace'.payload.directories)]_vars

\* C19 witness: the warning given to a command that names a missing
\* directory and one without a file that counts, in a session that stays
\* Configured.
C19_Witness ==
  /\ trace.cmd = "index"
  /\ trace.payload.directories = <<"missing", "empty">>
  /\ stdout = <<NoDocumentsResponse>>
  /\ retriever # None
  /\ ~indexed

\* the text is not empty once trimmed
NonEmptyTrimmed(text) == \E c \in 1..Len(text) : text[c] \notin Whitespace

\* the number of files or inline strings a command names whose content is
\* not empty once trimmed
CandidateCount(payload) ==
  IF Len(payload.directories) > 0
    THEN Len(ExpectedPaths(payload.directories))
    ELSE Cardinality({k \in 1..Len(payload.documents) :
                        /\ payload.documents[k].t = "str"
                        /\ NonEmptyTrimmed(payload.documents[k].s)})

\* C20: every stored document and every document submitted to a build has
\* text that is not empty once trimmed, and an index command that finished
\* collecting stores exactly as many records as it names files or inline
\* strings with such content: an empty one gets no record and no identifier.
C20_EmptyContentNeverIndexed ==
  /\ \A k \in 1..Len(indexed_docs) : NonEmptyTrimmed(indexed_docs[k])
  /\ Len(indexed_files) = Len(indexed_docs)
  /\ trace.cmd = "index"
       => /\ \A k \in 1..Len(trace.submitted) :
               NonEmptyTrimmed(trace.submitted[k].text)
          /\ DOMAIN stdout[1] # {"status", "message", "stack_trace"}
               => /\ Len(indexed_docs) = CandidateCount(trace.payload)
                  /\ trace.primary # "none"
                       => Len(trace.submitted) = CandidateCount(trace.payload)

\* C20 witness: two inline strings, the first blank, of which one is stored.
C20_Witness ==
  /\ trace.cmd = "index"
  /\ trace.payload.documents = <<JStr(<<" ">>), JStr(<<"b">>)>>
  /\ StatusOf(stdout) = "success"
  /\ indexed_docs = <<(<<"b">>)>>

C22_SampleQueryIsolated ==
  (trace.cmd = "index" /\ trace.primary = "ok" /\ trace.sample = "raised")
    => /\ StatusOf(stdout) = "success"
       /\ stdout[1].document_count = Len(trace.submitted)
       /\ stdout[1].total_files = Len(trace.submitted)
       /\ SessionState(retriever, indexed) = "Indexed"
       /\ indexHandle.built
       /\ [k \in 1..Len(indexHandle.corpus) |->
             [id |-> indexHandle.corpus[k].id, text |-> indexHandle.corpus[k].text]]
            = trace.submitted
       /\ trace.fallback = "none"
       /\ ~trace.staged

\* C22 witness: a success answered after the sample query raised.
C22_Witness ==
  /\ trace.cmd = "index"
  /\ trace.primary = "ok"
  /\ trace.sample = "raised"
  /\ StatusOf(stdout) = "success"
  /\ Len(trace.submitted) > 0

\* collecting the documents of the command raises: it names no directory and
\* one of its inline documents is no string
CollectionAborts(payload) ==
  /\ Len(payload.directories) = 0
  /\ \E k \in 1..Len(payload.documents) : payload.documents[k].t # "str"

\* C23: an index command whose collection raises is answered status error and
\* leaves the stored corpus and the indexed flag as they were, whatever was
\* collected before the exception; and an index command changes the stored
\* corpus only to the complete result of a collection that finished.
C23_NoPartialCorpus ==
  [][Did("index")
       => /\ CollectionAborts(trace'.payload)
               => /\ StatusOf(stdout') = "error"
                  /\ indexed_docs' = indexed_docs
                  /\ indexed_files' = indexed_files
                  /\ indexed' = indexed
                  /\ trace'.primary = "none"
          /\ (indexed_docs' # indexed_docs \/ indexed_files' # indexed_files)
               => /\ ~CollectionAborts(trace'.payload)
                  /\ Len(indexed_docs') = CandidateCount(trace'.payload)
                  /\ Len(indexed_files') = CandidateCount(trace'.payload)]_vars

\* C23 witness: an Indexed session that keeps its one-document corpus after a
\* command whose second inline document is no string.
C23_Witness ==
  /\ trace.cmd = "index"
  /\ trace.payload.documents = <<JStr(<<"b">>), NotAString>>
  /\ StatusOf(stdout) = "error"
  /\ indexed
  /\ Len(indexed_docs) = 1
  /\ indexed_files = <<(<<"docs/a.md">>)>>

\* C24: an index command issued while the session holds a retriever leaves
\* the retriever as it is, whatever its retriever_type; an index command
\* issued while there is none makes the variant its retriever_type names; and
\* the retriever a session holds is changed by nothing but a
\* configure_retriever command that answers success.
C24_IndexKeepsRetriever ==
  [][/\ (Did("index") /\ retriever # None) => retriever' = retriever
     /\ (Did("index") /\ retriever = None /\ retriever' # None)
          => retriever' = VariantOf(trace'.instantiated)
     /\ (retriever # None /\ retriever' # retriever)
          => (Did("configure_retriever") /\ StatusOf(stdout') = "success")]_vars

\* C25: a search command, whatever it answers (not indexed, empty query,
\* results, an exception of the backend, entries it could not map), leaves
\* the retriever, its index, the indexed flag and the two corpus tables as
\* they were; a session that a search was not refused in is therefore not
\* refused the next search either.
C25_SearchReadOnly ==
  [][Did("search") =>
       /\ SessionUnchanged
       /\ SearchGated(retriever', indexed') = SearchGated(retriever, indexed)]_vars

\* a search whose backend raised has answered the exception, and the session
\* still holds its retriever, its flag and a corpus
C25_Witness ==
  /\ trace.cmd = "search"
  /\ trace.queried
  /\ Len(stdout) = 1
  /\ "stack_trace" \in DOMAIN stdout[1]
  /\ retriever # None
  /\ indexed
  /\ Len(indexed_docs) > 0

====
